---- MODULE Spec2Model ----
(***************************************************************************)
(* Model of scripts/nvim-control.py: session discovery (get_lock_file),    *)
(* the one-shot calls (call_tool, list_tools) and the STDIO proxy          *)
(* (run_mcp_stdio_server with its two relay tasks).                        *)
(*                                                                         *)
(* Text is modelled as sequences of one-character strings, so that         *)
(* str.strip() is computed and not assumed.  Standard output is assumed    *)
(* to stay writable.  Transport messages are text frames.                  *)
(***************************************************************************)
EXTENDS Integers, Sequences, FiniteSets, TLC

VARIABLES
    command,     \* the front-end that runs: "call_tool", "list_tools", "mcp-server"
    envSSE,      \* os.environ.get('CLAUDE_CODE_SSE_PORT')
    envNVIM,     \* os.environ.get('NVIM_CONTROL_PORT')
    lockDir,     \* ~/.claude/ide: port name -> descriptor file
    located,     \* what get_lock_file() did
    pc,          \* position of main() / run_mcp_stdio_server() / call_tool()
    conn,        \* state of the websocket connection
    wsSent,      \* messages the program sent on the connection, in order
    wsArrived,   \* messages that arrived from the remote, in order
    taken,       \* how many arrived messages the program has received
    stdout,      \* what run_mcp_stdio_server printed, in order
    stdinLines,  \* values sys.stdin.readline returned so far (non-empty ones)
    line,        \* stdin_to_ws: the local variable line
    inPc,        \* position of stdin_to_ws
    outPc,       \* position of ws_to_stdout
    eof,         \* sys.stdin.readline has returned ''
    arrivedAtEOF, \* history: how many messages had arrived when it did
    cli,         \* args.command
    response,    \* main(): what kind of object result is
    exitCode,    \* the exit status of the process, -1 while it runs
    linesAtClose \* history: how many lines had been read when the remote closed

vars == <<command, envSSE, envNVIM, lockDir, located, pc, conn, wsSent,
          wsArrived, taken, stdout, stdinLines, line, inPc, outPc, eof,
          arrivedAtEOF,
                   cli, response, exitCode, linesAtClose>>

(***************************************************************************)
(* Bounds of the model.                                                    *)
(***************************************************************************)
MaxMtime == 2
MaxLines == 3
MaxMsgs == 2

(***************************************************************************)
(* Python values.                                                          *)
(***************************************************************************)
None == "None"

\* Python truthiness of an optional string: None and '' are false.
Falsy(v) == v = None \/ v = ""

\* an "or" that prefers its second operand
PyOr_second(a, b) == IF Falsy(b) THEN a ELSE b

\* a or b
PyOr(a, b) == IF Falsy(a) THEN b ELSE a

NL == "\n"

Whitespace == {" ", NL}

RECURSIVE lstrip(_)
lstrip(s) ==
    IF s # <<>> /\ Head(s) \in Whitespace THEN lstrip(Tail(s)) ELSE s

RECURSIVE rstrip(_)
rstrip(s) ==
    IF s # <<>> /\ s[Len(s)] \in Whitespace
    THEN rstrip(SubSeq(s, 1, Len(s) - 1))
    ELSE s

\* a strip that removes trailing whitespace only
strip_trailing(s) == rstrip(s)

\* str.strip(): leading and trailing whitespace removed
strip(s) == rstrip(lstrip(s))

(***************************************************************************)
(* Session discovery.                                                      *)
(***************************************************************************)
FilePorts == {"100", "200"}

EnvValues == {None, "", "100", "200", "300"}

Tokens == {"", "tokA", "tokB"}

NoFile == [present |-> FALSE, mtime |-> 0, valid |-> FALSE, authToken |-> None]

\* A descriptor file: valid = it can be read and json.load gives an object;
\* authToken = None when the object has no such key.
Files ==
    {NoFile} \cup
    [present : {TRUE}, mtime : 1..MaxMtime, valid : {FALSE}, authToken : {None}] \cup
    [present : {TRUE}, mtime : 1..MaxMtime, valid : {TRUE},
     authToken : Tokens \cup {None}]

Dirs == [FilePorts -> Files]

\* os.path.exists(lock_path)
exists(dir, port) == port \in DOMAIN dir /\ dir[port].present

\* glob.glob(os.path.join(lock_dir, "*.lock"))
lock_files(dir) == {p \in DOMAIN dir : dir[p].present}

\* a wrong selection: min in place of max
latest_oldest(dir) ==
    {p \in lock_files(dir) : \A q \in lock_files(dir) : dir[p].mtime <= dir[q].mtime}

\* the values max(lock_files, key=os.path.getmtime) can take: glob's order
\* is unspecified, so any file of greatest mtime can be the first maximum
latest(dir) ==
    {p \in lock_files(dir) : \A q \in lock_files(dir) : dir[q].mtime <= dir[p].mtime}

\* with open(path) as f: data = json.load(f); return port, data.get('authToken')
load(dir, port) ==
    IF dir[port].valid
    THEN [outcome |-> "returned", port |-> port, token |-> dir[port].authToken,
          file |-> port]
    ELSE [outcome |-> "raised", port |-> None, token |-> None, file |-> port]

NotFound == [outcome |-> "returned", port |-> None, token |-> None, file |-> None]

\* the most-recent-file heuristic, lines 59-74
fallback(dir) ==
    IF lock_files(dir) = {} THEN {NotFound}
    ELSE {load(dir, p) : p \in latest(dir)}

\* a different policy: a hint whose file is missing ends the lookup
get_lock_file_strict(sse, nvim, dir) ==
    LET env_port == PyOr(sse, nvim) IN
    IF Falsy(env_port) THEN fallback(dir)
    ELSE IF exists(dir, env_port) THEN {load(dir, env_port)}
    ELSE {NotFound}

\* get_lock_file(): the set of its possible outcomes
get_lock_file(sse, nvim, dir) ==
    LET env_port == PyOr(sse, nvim) IN
    IF ~Falsy(env_port) /\ exists(dir, env_port)
    THEN {load(dir, env_port)}
    ELSE fallback(dir)

Pending == [outcome |-> "pending", port |-> None, token |-> None, file |-> None]

(***************************************************************************)
(* Initial states.                                                         *)
(***************************************************************************)
\* args.command of the runs that do not depend on it
DefaultCli(cmd) ==
    IF cmd = "mcp-server" THEN "mcp-server"
    ELSE IF cmd = "list_tools" THEN "list-tools"
    ELSE "exec"

InitState ==
    /\ located = Pending
    /\ pc = "locate"
    /\ conn = "none"
    /\ wsSent = <<>>
    /\ wsArrived = <<>>
    /\ taken = 0
    /\ stdout = <<>>
    /\ stdinLines = <<>>
    /\ line = <<>>
    /\ inPc = "idle"
    /\ outPc = "idle"
    /\ eof = FALSE
    /\ arrivedAtEOF = 0
    /\ response = None
    /\ exitCode = -1
    /\ linesAtClose = 0

InitRest ==
    /\ cli = DefaultCli(command)
    /\ InitState

\* every environment and descriptor directory, either kind of front-end
InitLocate ==
    /\ command \in {"call_tool", "mcp-server"}
    /\ envSSE \in EnvValues
    /\ envNVIM \in EnvValues
    /\ lockDir \in Dirs
    /\ InitRest

(***************************************************************************)
(* main() line 255 and run_mcp_stdio_server() line 146.                    *)
(***************************************************************************)
Locate ==
    /\ pc = "locate"
    /\ \E r \in get_lock_file(envSSE, envNVIM, lockDir) :
          /\ located' = r
          /\ pc' = IF r.outcome = "raised" THEN "crashed" ELSE "check"
    /\ UNCHANGED <<command, envSSE, envNVIM, lockDir, conn, wsSent, wsArrived,
                   taken, stdout, stdinLines, line, inPc, outPc, eof, arrivedAtEOF,
                   cli, response, exitCode, linesAtClose>>

\* json.dumps(error_response): lines 149-157 and 189-197
ErrorObject(why) ==
    [kind |-> "error", id |-> None, code |-> -32603, reason |-> why, msg |-> 0]

\* print(message, flush=True): line 182
RelayLine(m) ==
    [kind |-> "relay", id |-> None, code |-> 0, reason |-> "", msg |-> m]

\* a test of the port alone
unusable_port_only(r) == Falsy(r.port)

\* not port or not auth_token
unusable(r) == IF Falsy(r.port) THEN TRUE ELSE Falsy(r.token)

\* if not port or not auth_token: lines 147-158 and 256-258
NoSession ==
    /\ pc = "check"
    /\ unusable(located)
    /\ pc' = "done"
    /\ stdout' = IF command = "mcp-server"
                 THEN Append(stdout, ErrorObject("no_instance"))
                 ELSE stdout
    /\ UNCHANGED <<command, envSSE, envNVIM, lockDir, located, conn, wsSent,
                   wsArrived, taken, stdinLines, line, inPc, outPc, eof, arrivedAtEOF,
                   cli, response, exitCode, linesAtClose>>

HaveSession ==
    /\ pc = "check"
    /\ ~unusable(located)
    /\ pc' = "connect"
    /\ UNCHANGED <<command, envSSE, envNVIM, lockDir, located, conn, wsSent,
                   wsArrived, taken, stdout, stdinLines, line, inPc, outPc, eof,
          arrivedAtEOF,
                   cli, response, exitCode, linesAtClose>>

(***************************************************************************)
(* The remote endpoint and the network.                                    *)
(***************************************************************************)
\* the remote sends its next message; the k-th message of a run is k
RemoteSend ==
    /\ conn = "open"
    /\ Len(wsArrived) < MaxMsgs
    /\ wsArrived' = Append(wsArrived, Len(wsArrived) + 1)
    /\ UNCHANGED <<command, envSSE, envNVIM, lockDir, located, pc, conn, wsSent,
                   taken, stdout, stdinLines, line, inPc, outPc, eof, arrivedAtEOF,
                   cli, response, exitCode, linesAtClose>>

\* the remote closes the connection with a close frame
RemoteClose ==
    /\ conn = "open"
    /\ conn' = "closedOK"
    /\ linesAtClose' = Len(stdinLines)
    /\ UNCHANGED <<command, envSSE, envNVIM, lockDir, located, pc, wsSent,
                   wsArrived, taken, stdout, stdinLines, line, inPc, outPc, eof,
                   arrivedAtEOF, cli, response, exitCode>>

\* the connection drops without a close frame
RemoteDrop ==
    /\ conn = "open"
    /\ conn' = "dropped"
    /\ UNCHANGED <<command, envSSE, envNVIM, lockDir, located, pc, wsSent,
                   wsArrived, taken, stdout, stdinLines, line, inPc, outPc, eof,
          arrivedAtEOF,
                   cli, response, exitCode, linesAtClose>>

(***************************************************************************)
(* run_mcp_stdio_server(): connection and the two relay tasks.             *)
(***************************************************************************)
\* a bridge that performs the handshake itself before relaying
ProxyConnect_handshake ==
    /\ command = "mcp-server"
    /\ pc = "connect"
    /\ conn' = "open"
    /\ wsSent' = Append(wsSent, [kind |-> "rpc", id |-> 1, method |-> "initialize",
                                 text |-> <<>>])
    /\ pc' = "relay"
    /\ inPc' = "read"
    /\ outPc' = "recv"
    /\ UNCHANGED <<command, envSSE, envNVIM, lockDir, located, wsArrived,
                   taken, stdout, stdinLines, line, eof, arrivedAtEOF,
                   cli, response, exitCode, linesAtClose>>

\* websockets.connect succeeds; gather() starts both tasks (lines 164, 187)
ProxyConnect ==
    /\ command = "mcp-server"
    /\ pc = "connect"
    /\ conn' = "open"
    /\ pc' = "relay"
    /\ inPc' = "read"
    /\ outPc' = "recv"
    /\ UNCHANGED <<command, envSSE, envNVIM, lockDir, located, wsSent, wsArrived,
                   taken, stdout, stdinLines, line, eof, arrivedAtEOF,
                   cli, response, exitCode, linesAtClose>>

\* websockets.connect raises; except Exception at lines 188-197
ProxyConnectFail ==
    /\ command = "mcp-server"
    /\ pc = "connect"
    /\ conn' = "failed"
    /\ pc' = "done"
    /\ stdout' = Append(stdout, ErrorObject("connect_failed"))
    /\ UNCHANGED <<command, envSSE, envNVIM, lockDir, located, wsSent, wsArrived,
                   taken, stdinLines, line, inPc, outPc, eof, arrivedAtEOF,
                   cli, response, exitCode, linesAtClose>>

\* sys.stdin.readline() called in the coroutine itself
LoopBlocked_by_read == inPc = "read"

\* Whether a blocked sys.stdin.readline keeps the event loop from running
\* other tasks.  Line 170 runs it in the default executor, so it does not.
LoopBlocked == FALSE

\* what sys.stdin.readline can return before end of input: a line with its
\* newline, or the unterminated last line
StdinLines ==
    { <<" ", " ", NL>>, <<"f", "o", "o", NL>>, <<NL>>, <<"b", "a", "r", NL>>,
      <<" ", "a", " ", "b", " ">> }

Terminated(l) == l # <<>> /\ l[Len(l)] = NL

\* after an unterminated line only end of input can follow
MoreInput(ls) == IF ls = <<>> THEN TRUE ELSE Terminated(ls[Len(ls)])

\* line = await loop.run_in_executor(None, sys.stdin.readline), a line came
ReadLine ==
    /\ inPc = "read"
    /\ ~eof
    /\ Len(stdinLines) < MaxLines
    /\ MoreInput(stdinLines)
    /\ \E l \in StdinLines :
          /\ line' = l
          /\ stdinLines' = Append(stdinLines, l)
    /\ inPc' = "strip"
    /\ UNCHANGED <<command, envSSE, envNVIM, lockDir, located, pc, conn, wsSent,
                   wsArrived, taken, stdout, outPc, eof, arrivedAtEOF,
                   cli, response, exitCode, linesAtClose>>

\* end of input that also closes the connection
ReadEOF_close ==
    /\ inPc = "read"
    /\ ~eof
    /\ eof' = TRUE
    /\ arrivedAtEOF' = Len(wsArrived)
    /\ inPc' = "done"
    /\ conn' = IF conn = "open" THEN "localClosed" ELSE conn
    /\ UNCHANGED <<command, envSSE, envNVIM, lockDir, located, pc, wsSent,
                   wsArrived, taken, stdout, stdinLines, line, outPc,
                   cli, response, exitCode, linesAtClose>>

\* readline returned '': if not line: break (lines 171-172)
ReadEOF ==
    /\ inPc = "read"
    /\ ~eof
    /\ eof' = TRUE
    /\ arrivedAtEOF' = Len(wsArrived)
    /\ inPc' = "done"
    /\ UNCHANGED <<command, envSSE, envNVIM, lockDir, located, pc, conn, wsSent,
                   wsArrived, taken, stdout, stdinLines, line, outPc,
                   cli, response, exitCode, linesAtClose>>

LineMsg(s) == [kind |-> "line", id |-> 0, method |-> "", text |-> s]

\* the test "if line:" left out: blank lines are sent too
Forward_noskip ==
    /\ inPc = "strip"
    /\ IF conn = "open"
       THEN /\ wsSent' = Append(wsSent, [kind |-> "line", id |-> 0, method |-> "",
                                         text |-> strip(line)])
            /\ inPc' = "read"
       ELSE /\ inPc' = "done"
            /\ UNCHANGED wsSent
    /\ UNCHANGED <<command, envSSE, envNVIM, lockDir, located, pc, conn,
                   wsArrived, taken, stdout, stdinLines, line, outPc, eof,
                   arrivedAtEOF,
                   cli, response, exitCode, linesAtClose>>

\* line = line.strip(); if line: await ws.send(line); a failed send breaks
\* the loop (lines 173-177)
Forward ==
    /\ inPc = "strip"
    /\ ~LoopBlocked
    /\ LET s == strip(line) IN
       IF s = <<>>
       THEN /\ inPc' = "read"
            /\ UNCHANGED wsSent
       ELSE IF conn = "open"
       THEN /\ wsSent' = Append(wsSent, LineMsg(s))
            /\ inPc' = "read"
       ELSE /\ inPc' = "done"
            /\ UNCHANGED wsSent
    /\ UNCHANGED <<command, envSSE, envNVIM, lockDir, located, pc, conn,
                   wsArrived, taken, stdout, stdinLines, line, outPc, eof, arrivedAtEOF,
                   cli, response, exitCode, linesAtClose>>

\* a message taken from the transport and left in a buffer
OutRelay_noflush ==
    /\ outPc = "recv"
    /\ taken < Len(wsArrived)
    /\ taken' = taken + 1
    /\ UNCHANGED <<command, envSSE, envNVIM, lockDir, located, pc, conn, wsSent,
                   wsArrived, stdout, stdinLines, line, inPc, outPc, eof,
                   arrivedAtEOF,
                   cli, response, exitCode, linesAtClose>>

\* async for message in ws: print(message, flush=True) (lines 181-182)
OutRelay ==
    /\ outPc = "recv"
    /\ ~LoopBlocked
    /\ taken < Len(wsArrived)
    /\ taken' = taken + 1
    /\ stdout' = Append(stdout, RelayLine(wsArrived[taken + 1]))
    /\ UNCHANGED <<command, envSSE, envNVIM, lockDir, located, pc, conn, wsSent,
                   wsArrived, stdinLines, line, inPc, outPc, eof, arrivedAtEOF,
                   cli, response, exitCode, linesAtClose>>

\* the iteration ends on a normal close, and ConnectionClosed is passed over
\* on an abnormal one (lines 183-184); queued messages are delivered first
OutClosed ==
    /\ outPc = "recv"
    /\ ~LoopBlocked
    /\ taken = Len(wsArrived)
    /\ conn # "open"
    /\ outPc' = "done"
    /\ UNCHANGED <<command, envSSE, envNVIM, lockDir, located, pc, conn, wsSent,
                   wsArrived, taken, stdout, stdinLines, line, inPc, eof, arrivedAtEOF,
                   cli, response, exitCode, linesAtClose>>

\* a gather that returns as soon as one of the two tasks has returned
GatherDone_first ==
    /\ pc = "relay"
    /\ ~LoopBlocked
    /\ inPc = "done" \/ outPc = "done"
    /\ pc' = "done"
    /\ conn' = IF conn = "open" THEN "localClosed" ELSE conn
    /\ UNCHANGED <<command, envSSE, envNVIM, lockDir, located, wsSent, wsArrived,
                   taken, stdout, stdinLines, line, inPc, outPc, eof, arrivedAtEOF,
                   cli, response, exitCode, linesAtClose>>

\* asyncio.gather returns once both tasks have returned; the async with
\* block is left and the function returns (line 187)
GatherDone ==
    /\ pc = "relay"
    /\ ~LoopBlocked
    /\ inPc = "done"
    /\ outPc = "done"
    /\ pc' = "done"
    /\ conn' = IF conn = "open" THEN "localClosed" ELSE conn
    /\ UNCHANGED <<command, envSSE, envNVIM, lockDir, located, wsSent, wsArrived,
                   taken, stdout, stdinLines, line, inPc, outPc, eof, arrivedAtEOF,
                   cli, response, exitCode, linesAtClose>>

\* proxy mode: no environment hint, at most the descriptor of port 100
Init ==
    /\ command = "mcp-server"
    /\ envSSE = None
    /\ envNVIM = None
    /\ lockDir \in {d \in Dirs : /\ ~d["200"].present
                                 /\ d["100"].mtime <= 1
                                 /\ d["100"].authToken # "tokB"}
    /\ InitRest

Next ==
    \/ Locate
    \/ NoSession
    \/ HaveSession
    \/ ProxyConnect
    \/ ProxyConnectFail
    \/ ReadLine
    \/ ReadEOF
    \/ Forward
    \/ OutRelay
    \/ OutClosed
    \/ GatherDone
    \/ RemoteSend
    \/ RemoteClose
    \/ RemoteDrop

Spec == Init /\ [][Next]_vars

\* The event loop runs every task that is ready; nothing makes standard
\* input or the remote deliver anything.
Fairness ==
    /\ WF_vars(Locate)
    /\ WF_vars(NoSession)
    /\ WF_vars(HaveSession)
    /\ WF_vars(Forward)
    /\ WF_vars(OutRelay)
    /\ WF_vars(OutClosed)
    /\ WF_vars(GatherDone)

FairSpec == Spec /\ Fairness

(***************************************************************************)
(* call_tool() and list_tools(): one connection, handshake, one call.      *)
(***************************************************************************)
OneShot == {"call_tool", "list_tools"}

RpcMsg(i, m) == [kind |-> "rpc", id |-> i, method |-> m, text |-> <<>>]

\* init_msg, lines 84-93 and 119-128
InitMsg == RpcMsg(1, "initialize")

\* call_msg, lines 98-106, and tools_msg, lines 133-138
CallMsg(cmd) ==
    IF cmd = "list_tools" THEN RpcMsg(2, "tools/list") ELSE RpcMsg(2, "tools/call")

\* async with websockets.connect(...) as ws: lines 82 and 117
OneConnect ==
    /\ command \in OneShot
    /\ pc = "connect"
    /\ conn' = "open"
    /\ pc' = "send_init"
    /\ UNCHANGED <<command, envSSE, envNVIM, lockDir, located, wsSent, wsArrived,
                   taken, stdout, stdinLines, line, inPc, outPc, eof, arrivedAtEOF,
                   cli, response, exitCode, linesAtClose>>

\* websockets.connect raises: main() reports it at lines 406-408
OneConnectFail ==
    /\ command \in OneShot
    /\ pc = "connect"
    /\ conn' = "failed"
    /\ pc' = "failed"
    /\ UNCHANGED <<command, envSSE, envNVIM, lockDir, located, wsSent, wsArrived,
                   taken, stdout, stdinLines, line, inPc, outPc, eof, arrivedAtEOF,
                   cli, response, exitCode, linesAtClose>>

\* await ws.send(json.dumps(init_msg)): lines 94 and 129
OneSendInit ==
    /\ pc = "send_init"
    /\ IF conn = "open"
       THEN /\ wsSent' = Append(wsSent, InitMsg)
            /\ pc' = "recv_init"
       ELSE /\ pc' = "failed"
            /\ UNCHANGED wsSent
    /\ UNCHANGED <<command, envSSE, envNVIM, lockDir, located, conn, wsArrived,
                   taken, stdout, stdinLines, line, inPc, outPc, eof, arrivedAtEOF,
                   cli, response, exitCode, linesAtClose>>

\* the handshake response not awaited
OneRecvInit_nowait ==
    /\ pc = "recv_init"
    /\ pc' = "send_call"
    /\ UNCHANGED <<command, envSSE, envNVIM, lockDir, located, conn, wsSent,
                   wsArrived, taken, stdout, stdinLines, line, inPc, outPc, eof,
                   arrivedAtEOF,
                   cli, response, exitCode, linesAtClose>>

\* await ws.recv(): lines 95 and 130; the message is not looked at
OneRecvInit ==
    /\ pc = "recv_init"
    /\ taken < Len(wsArrived)
    /\ taken' = taken + 1
    /\ pc' = "send_call"
    /\ UNCHANGED <<command, envSSE, envNVIM, lockDir, located, conn, wsSent,
                   wsArrived, stdout, stdinLines, line, inPc, outPc, eof, arrivedAtEOF,
                   cli, response, exitCode, linesAtClose>>

\* await ws.send(json.dumps(call_msg)): lines 107 and 139
OneSendCall ==
    /\ pc = "send_call"
    /\ IF conn = "open"
       THEN /\ wsSent' = Append(wsSent, CallMsg(command))
            /\ pc' = "recv_call"
       ELSE /\ pc' = "failed"
            /\ UNCHANGED wsSent
    /\ UNCHANGED <<command, envSSE, envNVIM, lockDir, located, conn, wsArrived,
                   taken, stdout, stdinLines, line, inPc, outPc, eof, arrivedAtEOF,
                   cli, response, exitCode, linesAtClose>>

\* response = await ws.recv(); return: lines 108-109 and 140-141; leaving
\* the async with block closes the connection
OneRecvCall ==
    /\ pc = "recv_call"
    /\ taken < Len(wsArrived)
    /\ taken' = taken + 1
    /\ pc' = "done"
    /\ conn' = IF conn = "open" THEN "localClosed" ELSE conn
    /\ UNCHANGED <<command, envSSE, envNVIM, lockDir, located, wsSent, wsArrived,
                   stdout, stdinLines, line, inPc, outPc, eof, arrivedAtEOF,
                   cli, response, exitCode, linesAtClose>>

\* ws.recv() raises ConnectionClosed: nothing is queued and the connection
\* is closed
OneRecvFail ==
    /\ pc \in {"recv_init", "recv_call"}
    /\ taken = Len(wsArrived)
    /\ conn # "open"
    /\ pc' = "failed"
    /\ UNCHANGED <<command, envSSE, envNVIM, lockDir, located, conn, wsSent,
                   wsArrived, taken, stdout, stdinLines, line, inPc, outPc, eof, arrivedAtEOF,
                   cli, response, exitCode, linesAtClose>>

\* a one-shot command: no environment hint, at most the descriptor of port 100
InitOneShot ==
    /\ command \in OneShot
    /\ envSSE = None
    /\ envNVIM = None
    /\ lockDir \in {d \in Dirs : ~d["200"].present /\ d["100"].mtime <= 1}
    /\ InitRest

NextOneShot ==
    \/ Locate
    \/ NoSession
    \/ HaveSession
    \/ OneConnect
    \/ OneConnectFail
    \/ OneSendInit
    \/ OneRecvInit
    \/ OneSendCall
    \/ OneRecvCall
    \/ OneRecvFail
    \/ RemoteSend
    \/ RemoteClose
    \/ RemoteDrop

SpecOneShot == InitOneShot /\ [][NextOneShot]_vars

(***************************************************************************)
(* Proxy mode with a standard output that can fail.                        *)
(***************************************************************************)
\* print(message, flush=True) raises at line 182 (the text cannot be encoded
\* for standard output, or the reader of standard output is gone).  Only
\* ConnectionClosed is caught at line 183, so the exception leaves
\* ws_to_stdout, gather re-raises it at line 187, the async with block closes
\* the connection, and the handler at lines 188-197 prints its error object;
\* that print fails in turn when standard output itself is broken.  asyncio.run
\* cancels stdin_to_ws on the way out.
OutPrintFails ==
    /\ pc = "relay"
    /\ outPc = "recv"
    /\ ~LoopBlocked
    /\ taken < Len(wsArrived)
    /\ taken' = taken + 1
    /\ outPc' = "failed"
    /\ inPc' = "cancelled"
    /\ conn' = IF conn = "open" THEN "localClosed" ELSE conn
    /\ \E handled \in BOOLEAN :
          IF handled
          THEN /\ stdout' = Append(stdout, ErrorObject("connect_failed"))
               /\ pc' = "done"
          ELSE /\ stdout' = stdout
               /\ pc' = "crashed"
    /\ UNCHANGED <<command, envSSE, envNVIM, lockDir, located, wsSent, wsArrived,
                   stdinLines, line, eof, arrivedAtEOF,
                   cli, response, exitCode, linesAtClose>>

NextIO ==
    \/ Locate
    \/ NoSession
    \/ HaveSession
    \/ ProxyConnect
    \/ ProxyConnectFail
    \/ ReadLine
    \/ ReadEOF
    \/ Forward
    \/ OutRelay
    \/ OutPrintFails
    \/ OutClosed
    \/ GatherDone
    \/ RemoteSend
    \/ RemoteClose
    \/ RemoteDrop

SpecIO == Init /\ [][NextIO]_vars

(***************************************************************************)
(* main(): the one-shot commands and their exit status.                    *)
(***************************************************************************)
CliCommands ==
    {"open", "exec", "lua", "raw", "list-tools", "windows", "focus",
     "close-window"}

\* the coroutine main() runs for args.command: lines 261-394
RunOf(c) == IF c = "list-tools" THEN "list_tools" ELSE "call_tool"

\* what the second ws.recv() can give: an object with "result", an object
\* with "error", an object with neither, or text json.loads rejects
ResponseKinds == {"result", "error", "other", "unparsable"}

\* the generic printer, lines 396-404
print_result(r) == IF r = "error" THEN 1 ELSE 0

\* the exit status main() ends with once the call has returned r
main_exit(c, r) ==
    IF r = "unparsable" THEN 1
    ELSE IF c = "windows" THEN 0
    ELSE IF c = "list-tools" /\ r = "result" THEN 0
    ELSE print_result(r)

\* arguments = json.loads(args.args) raises: lines 316 and 406-408
RawArgsFail ==
    /\ cli = "raw"
    /\ pc = "connect"
    /\ pc' = "failed"
    /\ UNCHANGED <<command, envSSE, envNVIM, lockDir, located, conn, wsSent,
                   wsArrived, taken, stdout, stdinLines, line, inPc, outPc, eof,
                   arrivedAtEOF, cli, response, exitCode, linesAtClose>>

\* sys.exit(1) at line 258
ExitNoSession ==
    /\ cli \in CliCommands
    /\ pc = "done"
    /\ conn = "none"
    /\ exitCode = -1
    /\ exitCode' = 1
    /\ UNCHANGED <<command, envSSE, envNVIM, lockDir, located, pc, conn, wsSent,
                   wsArrived, taken, stdout, stdinLines, line, inPc, outPc, eof,
                   arrivedAtEOF, cli, response, linesAtClose>>

\* get_lock_file() raised at line 255, outside the try: traceback, status 1
ExitCrashed ==
    /\ cli \in CliCommands
    /\ pc = "crashed"
    /\ exitCode = -1
    /\ exitCode' = 1
    /\ UNCHANGED <<command, envSSE, envNVIM, lockDir, located, pc, conn, wsSent,
                   wsArrived, taken, stdout, stdinLines, line, inPc, outPc, eof,
                   arrivedAtEOF, cli, response, linesAtClose>>

\* except Exception: sys.exit(1), lines 406-408
ExitFailed ==
    /\ cli \in CliCommands
    /\ pc = "failed"
    /\ exitCode = -1
    /\ exitCode' = 1
    /\ UNCHANGED <<command, envSSE, envNVIM, lockDir, located, pc, conn, wsSent,
                   wsArrived, taken, stdout, stdinLines, line, inPc, outPc, eof,
                   arrivedAtEOF, cli, response, linesAtClose>>

\* json.loads(response) and the code after asyncio.run: lines 109, 141 and
\* 309-313, 341-360, 396-404
ExitAfterCall ==
    /\ cli \in CliCommands
    /\ pc = "done"
    /\ conn # "none"
    /\ exitCode = -1
    /\ \E r \in ResponseKinds :
          /\ response' = r
          /\ exitCode' = main_exit(cli, r)
    /\ UNCHANGED <<command, envSSE, envNVIM, lockDir, located, pc, conn, wsSent,
                   wsArrived, taken, stdout, stdinLines, line, inPc, outPc, eof,
                   arrivedAtEOF, cli, linesAtClose>>

\* a one-shot command: no environment hint, at most the descriptor of port 100
InitCli ==
    /\ cli \in CliCommands
    /\ command = RunOf(cli)
    /\ envSSE = None
    /\ envNVIM = None
    /\ lockDir \in {d \in Dirs : /\ ~d["200"].present
                                 /\ d["100"].mtime <= 1
                                 /\ d["100"].authToken # "tokB"}
    /\ InitState

NextCli ==
    \/ Locate
    \/ NoSession
    \/ HaveSession
    \/ RawArgsFail
    \/ OneConnect
    \/ OneConnectFail
    \/ OneSendInit
    \/ OneRecvInit
    \/ OneSendCall
    \/ OneRecvCall
    \/ OneRecvFail
    \/ RemoteSend
    \/ RemoteClose
    \/ RemoteDrop
    \/ ExitNoSession
    \/ ExitCrashed
    \/ ExitFailed
    \/ ExitAfterCall

SpecCli == InitCli /\ [][NextCli]_vars

(***************************************************************************)
(* Session discovery alone.                                                *)
(***************************************************************************)
NextLocate == Locate \/ NoSession \/ HaveSession

SpecLocate == InitLocate /\ [][NextLocate]_vars

(***************************************************************************)
(* Discovery up to the connection attempt, in both front-ends.             *)
(***************************************************************************)
NextConnect ==
    \/ Locate
    \/ NoSession
    \/ HaveSession
    \/ OneConnect
    \/ OneConnectFail
    \/ ProxyConnect
    \/ ProxyConnectFail

SpecConnect == InitLocate /\ [][NextConnect]_vars

(***************************************************************************)
(* Properties.                                                             *)
(***************************************************************************)
IsPrefix(a, b) == Len(a) <= Len(b) /\ a = SubSeq(b, 1, Len(a))

\* C1: in a one-shot operation the first message sent is the id=1
\* "initialize" request, the id=2 request ("tools/call" or "tools/list",
\* by operation) is sent only after a message has been received, and
\* nothing else is ever sent on the connection.
C1_HandshakeThenOneCall ==
    command \in OneShot =>
        /\ Len(wsSent) <= 2
        /\ \A i \in 1..Len(wsSent) :
              /\ wsSent[i].kind = "rpc"
              /\ wsSent[i].id = i
        /\ Len(wsSent) >= 1 => wsSent[1].method = "initialize"
        /\ Len(wsSent) >= 2 =>
              /\ taken >= 1
              /\ wsSent[2].method =
                    (IF command = "call_tool" THEN "tools/call" ELSE "tools/list")

C1_Witness ==
    /\ command \in OneShot
    /\ pc = "done"
    /\ Len(wsSent) = 2
    /\ taken = 2

Relayed ==
    \/ \E i \in 1..Len(wsSent) : wsSent[i].kind = "line"
    \/ \E i \in 1..Len(stdout) : stdout[i].kind = "relay"

NonBlank(l) == \E i \in 1..Len(l) : l[i] \notin {" ", "\n"}

\* l from its first to its last character that is not whitespace
Trimmed(l) ==
    LET idx == {i \in 1..Len(l) : l[i] \notin {" ", "\n"}}
        lo == CHOOSE i \in idx : \A j \in idx : i <= j
        hi == CHOOSE i \in idx : \A j \in idx : j <= i
    IN  SubSeq(l, lo, hi)

RECURSIVE ExpectedSends(_)
ExpectedSends(ls) ==
    IF ls = <<>> THEN <<>>
    ELSE (IF NonBlank(Head(ls)) THEN <<Trimmed(Head(ls))>> ELSE <<>>)
         \o ExpectedSends(Tail(ls))

\* the lines stdin_to_ws has read and dealt with
Processed ==
    IF inPc = "strip" THEN SubSeq(stdinLines, 1, Len(stdinLines) - 1)
    ELSE stdinLines

SentTexts == [i \in 1..Len(wsSent) |-> wsSent[i].text]

\* C3: in proxy mode the messages sent are, in order, the lines read that
\* are not empty or whitespace-only (each without its surrounding
\* whitespace), none lost, duplicated or reordered while the connection is
\* open; once it is closed they are a prefix of that sequence.
C3_ForwardsNonBlankInOrder ==
    command = "mcp-server" =>
        /\ IsPrefix(SentTexts, ExpectedSends(Processed))
        /\ conn = "open" => SentTexts = ExpectedSends(Processed)

C3_Witness ==
    /\ command = "mcp-server"
    /\ inPc = "read"
    /\ stdinLines = << <<" ", " ", "\n">>, <<"f", "o", "o", "\n">>, <<"\n">> >>
    /\ SentTexts = << <<"f", "o", "o">> >>

RelayOut == SelectSeq(stdout, LAMBDA e : e.kind = "relay")

\* C4: in proxy mode the relay lines on standard output are a prefix of the
\* messages that arrived from the transport, unchanged and in arrival order,
\* and every message taken from the transport has been written before the
\* next one is taken.
C4_StdoutIsPrefixOfArrived ==
    command = "mcp-server" =>
        /\ Len(RelayOut) = taken
        /\ Len(RelayOut) <= Len(wsArrived)
        /\ \A i \in 1..Len(RelayOut) : RelayOut[i].msg = wsArrived[i]

C4_Witness ==
    /\ command = "mcp-server"
    /\ Len(wsArrived) = 2
    /\ Len(RelayOut) = 1
    /\ outPc = "recv"

NoHint == Falsy(envSSE) /\ Falsy(envNVIM)

Hint == IF Falsy(envSSE) THEN envNVIM ELSE envSSE

\* the outcome of the most-recent-file heuristic over lockDir
MostRecentOutcome ==
    IF \A p \in FilePorts : ~lockDir[p].present
    THEN /\ located.outcome = "returned"
         /\ located.port = None
         /\ located.token = None
    ELSE /\ located.file \in FilePorts
         /\ lockDir[located.file].present
         /\ \A q \in FilePorts :
               lockDir[q].present => lockDir[q].mtime <= lockDir[located.file].mtime
         /\ lockDir[located.file].valid =>
               /\ located.outcome = "returned"
               /\ located.port = located.file
               /\ located.token = lockDir[located.file].authToken

\* C5: with no environment hint the lookup returns NotFound when the
\* directory holds no descriptor file, and otherwise selects a descriptor
\* file of greatest modification time and returns its port and token (a
\* file that cannot be read or parsed has neither).
C5_MostRecentWithoutHint ==
    (located.outcome # "pending" /\ NoHint) => MostRecentOutcome

C5_Witness ==
    /\ NoHint
    /\ lockDir["100"].present
    /\ lockDir["200"].present
    /\ lockDir["100"].mtime < lockDir["200"].mtime
    /\ located.outcome = "returned"
    /\ located.port = "200"
    /\ located.token = lockDir["200"].authToken

HintMissing == ~NoHint /\ (Hint \notin FilePorts \/ ~lockDir[Hint].present)

\* C6 as stated: with a hint naming a port whose descriptor file does not
\* exist the lookup fails and returns no other port's descriptor.
C6_MissingHintFails ==
    (located.outcome # "pending" /\ HintMissing) => located.port = None

\* C6 amended: with a hint naming a port whose descriptor file does not
\* exist the lookup falls back to the most-recent-file heuristic: NotFound
\* only when the directory holds no descriptor file, otherwise the port and
\* token of a descriptor file of greatest modification time.
C6_MissingHintFallsBack ==
    (located.outcome # "pending" /\ HintMissing) => MostRecentOutcome

C6_Witness ==
    /\ Hint = "300"
    /\ lockDir["100"].present
    /\ located.outcome = "returned"
    /\ located.port = "100"

LookupFailed ==
    \/ located.outcome = "raised"
    \/ located.outcome = "returned" /\ (Falsy(located.port) \/ Falsy(located.token))

Terminal == pc \in {"done", "crashed"}

\* C7: in proxy mode, whenever the session lookup fails (no descriptor,
\* descriptor unreadable or corrupt, descriptor without a token) or the
\* connect fails, the proxy has terminated with exactly one synthetic error
\* object (id null, code -32603) on standard output, no relay direction
\* started and nothing sent.
C7_FailedStartOneError ==
    (command = "mcp-server" /\ Terminal /\ (LookupFailed \/ conn = "failed")) =>
        /\ Len(stdout) = 1
        /\ stdout[1].kind = "error"
        /\ stdout[1].id = None
        /\ stdout[1].code = -32603
        /\ inPc = "idle"
        /\ outPc = "idle"
        /\ wsSent = <<>>

\* a relay direction has met an abnormal drop of the connection
FailureMet ==
    /\ pc = "relay"
    /\ conn = "dropped"
    /\ outPc = "done" \/ (inPc = "done" /\ ~eof)

\* C8: in proxy mode, once a relay direction has met a genuine transport
\* failure the run completes, even if standard input never delivers
\* another line or end of input.
C8_FailureEndsRun == [](FailureMet => <>(pc = "done"))

\* C9: the relay directions do not starve each other.  While stdin_to_ws
\* is blocked reading standard input, every message that has arrived from
\* the transport is eventually written to standard output; while
\* ws_to_stdout is blocked waiting for a message, a non-blank line that has
\* been read is eventually sent, unless the connection closes first.
C9_NoStarvation ==
    /\ \A i \in 1..MaxMsgs :
          [](((inPc = "read" /\ outPc = "recv" /\ Len(wsArrived) >= i)
                 => <>(Len(RelayOut) >= i)))
    /\ \A n \in 1..MaxLines :
          [](((inPc = "strip" /\ outPc = "recv" /\ NonBlank(line)
                 /\ Len(wsSent) = n - 1)
                 => <>(Len(wsSent) >= n \/ conn # "open")))

C9_Witness ==
    /\ inPc = "read"
    /\ ~eof
    /\ stdinLines = <<>>
    /\ outPc = "recv"
    /\ Len(RelayOut) = 2

\* C10: in proxy mode end of input ends stdin_to_ws only: no error is
\* written, the proxy does not close the connection, every message that
\* arrives afterwards is still written to standard output, and the run
\* completes only once the remote side has closed the connection.
C10_EOFKeepsDraining ==
    /\ [](eof =>
            /\ inPc = "done"
            /\ conn # "localClosed"
            /\ \A i \in 1..Len(stdout) : stdout[i].kind = "relay"
            /\ pc \in {"relay", "done"}
            /\ pc = "done" => conn \in {"closedOK", "dropped"}
            /\ conn = "open" => outPc = "recv")
    /\ \A i \in 1..MaxMsgs :
          []((eof /\ Len(wsArrived) >= i) => <>(Len(RelayOut) >= i))

C10_Witness ==
    /\ eof
    /\ pc = "done"
    /\ arrivedAtEOF = 0
    /\ Len(RelayOut) = 2
    /\ conn = "closedOK"

\* C11: a one-shot command ends with a non-zero status when no session
\* can be located, when the response to its call carries an error object
\* and when an operational failure occurs; it ends with status 0 only when
\* the remote call returned a result.
C11_ExitStatus ==
    (cli \in CliCommands /\ exitCode # -1) =>
        /\ LookupFailed => exitCode # 0
        /\ response = "error" => exitCode # 0
        /\ (pc = "failed" \/ response = "unparsable") => exitCode # 0
        /\ exitCode = 0 => response = "result"

\* C12: in proxy mode a synthetic error object is on standard output only
\* in a run where no relay direction was ever started; once relaying has
\* begun everything written to standard output is a message received from
\* the transport, whatever fails inside or after the relay.
C12_ErrorOnlyBeforeRelay ==
    (command = "mcp-server" /\ \E i \in 1..Len(stdout) : stdout[i].kind = "error")
        => (inPc = "idle" /\ outPc = "idle")

\* C13: in proxy mode a connection that dropped abnormally during the relay
\* is reported: a run that ended after such a drop has an error on its
\* output, which a run ended by a normal close of the remote does not have.
C13_DropIsReported ==
    (command = "mcp-server" /\ pc = "done" /\ conn = "dropped")
        => \E i \in 1..Len(stdout) : stdout[i].kind = "error"

\* the lines read after the remote closed that stdin_to_ws has dealt with
AfterClose == SubSeq(stdinLines, linesAtClose + 1, Len(Processed))

\* what holds in every state after a graceful close by the remote
GracefulSafe ==
    /\ \A i \in 1..Len(stdout) : stdout[i].kind # "error"
    /\ IsPrefix(SentTexts, ExpectedSends(SubSeq(stdinLines, 1, linesAtClose)))
    /\ pc = "done" => (inPc = "done" /\ outPc = "done")
    /\ eof => inPc = "done"

\* C14 as stated: after a graceful close by the remote while standard input
\* is open nothing read later is sent, no error object is written, the run
\* never ends while a direction is running, and stdin_to_ws has stopped as
\* soon as it has dealt with one line read after the close.
C14_StopsAtNextLine ==
    (command = "mcp-server" /\ conn = "closedOK") =>
        /\ GracefulSafe
        /\ AfterClose # <<>> => inPc = "done"

\* C14: after a graceful close by the remote while standard input is open,
\* ws_to_stdout ends without an error, nothing read after the close is
\* sent, no error object is written, stdin_to_ws goes on reading past blank
\* lines and has stopped once it has dealt with a non-blank line read after
\* the close or met end of input, and the run ends when both directions
\* have stopped and never earlier.
C14_GracefulClose ==
    /\ []((command = "mcp-server" /\ conn = "closedOK") =>
             /\ GracefulSafe
             /\ ExpectedSends(AfterClose) # <<>> => inPc = "done")
    /\ (conn = "closedOK") ~> (outPc = "done")
    /\ (conn = "closedOK" /\ inPc = "done") ~> (pc = "done")

C14_Witness ==
    /\ command = "mcp-server"
    /\ conn = "closedOK"
    /\ pc = "done"
    /\ ~eof
    /\ Len(stdinLines) = linesAtClose + 2
    /\ ~NonBlank(stdinLines[linesAtClose + 1])
    /\ NonBlank(stdinLines[linesAtClose + 2])

\* the lines each sent message came from, in order
SourceLines == SelectSeq(Processed, NonBlank)

\* t is l between its first and its last character that is not whitespace
IsStrippedOf(t, l) ==
    \E lo \in 1..Len(l) : \E hi \in lo..Len(l) :
        /\ t = SubSeq(l, lo, hi)
        /\ l[lo] \notin {" ", "\n"}
        /\ l[hi] \notin {" ", "\n"}
        /\ \A j \in 1..(lo - 1) : l[j] \in {" ", "\n"}
        /\ \A j \in (hi + 1)..Len(l) : l[j] \in {" ", "\n"}

\* t is l without its trailing whitespace, leading whitespace kept
IsRightStrippedOf(t, l) ==
    \E hi \in 0..Len(l) :
        /\ t = SubSeq(l, 1, hi)
        /\ hi > 0 => l[hi] \notin {" ", "\n"}
        /\ \A j \in (hi + 1)..Len(l) : l[j] \in {" ", "\n"}

\* C15 as stated: every message sent is the standard-input line it came
\* from with only its trailing whitespace removed; leading whitespace is
\* forwarded as read.
C15_OnlyTrailingRemoved ==
    command = "mcp-server" =>
        \A i \in 1..Len(wsSent) :
            /\ i <= Len(SourceLines)
            /\ IsRightStrippedOf(wsSent[i].text, SourceLines[i])

\* C15: every message sent is the standard-input line it came from with
\* its leading and its trailing whitespace removed; the characters between
\* the first and the last non-whitespace character are forwarded as read.
C15_BothEndsRemoved ==
    command = "mcp-server" =>
        \A i \in 1..Len(wsSent) :
            /\ i <= Len(SourceLines)
            /\ IsStrippedOf(wsSent[i].text, SourceLines[i])

C15_Witness ==
    /\ command = "mcp-server"
    /\ wsSent # <<>>
    /\ stdinLines[Len(stdinLines)] = <<" ", "a", " ", "b", " ">>
    /\ wsSent[Len(wsSent)].text = <<"a", " ", "b">>

\* the present descriptor files no other present file is newer than
Newest ==
    {p \in FilePorts : /\ lockDir[p].present
                       /\ \A q \in FilePorts :
                             lockDir[q].present => lockDir[q].mtime <= lockDir[p].mtime}

\* every descriptor file the lookup can select is corrupt: the hinted one
\* when it exists, otherwise the most recent ones
SelectedCorrupt ==
    IF Hint \in FilePorts /\ lockDir[Hint].present
    THEN ~lockDir[Hint].valid
    ELSE Newest # {} /\ \A p \in Newest : ~lockDir[p].valid

\* C16: when the descriptor file the lookup selected cannot be read or
\* parsed, the lookup still returns to its caller, with the NotFound
\* result; it never ends in an exception that passes the caller's
\* not-found handling by.
C16_CorruptIsNotFound ==
    (located.outcome # "pending" /\ SelectedCorrupt) =>
        /\ located.outcome = "returned"
        /\ located.port = None
        /\ located.token = None

\* C17: a lookup with an environment hint whose descriptor file exists
\* and parses returns that port and that file's token, whatever the
\* modification times of the other files; CLAUDE_CODE_SSE_PORT gives the
\* hint whenever it is set and not empty, and NVIM_CONTROL_PORT plays no
\* part then, even when the file CLAUDE_CODE_SSE_PORT names is missing.
C17_HintedDescriptor ==
    located.outcome # "pending" =>
        /\ (Hint \in FilePorts /\ lockDir[Hint].present /\ lockDir[Hint].valid) =>
              /\ located.outcome = "returned"
              /\ located.port = Hint
              /\ located.token = lockDir[Hint].authToken
        /\ (~Falsy(envSSE) /\ (envSSE \in FilePorts => ~lockDir[envSSE].present)) =>
              MostRecentOutcome

C17_Witness ==
    /\ envSSE = "100"
    /\ envNVIM = "200"
    /\ lockDir["100"].present /\ lockDir["100"].valid
    /\ lockDir["200"].present /\ lockDir["200"].valid
    /\ lockDir["100"].mtime < lockDir["200"].mtime
    /\ located.outcome = "returned"
    /\ located.port = "100"
    /\ located.token = lockDir["100"].authToken

\* a connection has been asked for or exists
Attempted == pc = "connect" \/ conn # "none"

\* C18: in both front-ends a connection is attempted only after the lookup
\* returned a non-empty port and a non-empty token that were read from a
\* descriptor file that exists and parses; a descriptor without a token
\* ends the run as "no session", with no connection.
C18_ConnectOnlyWithDescriptor ==
    /\ Attempted =>
          /\ located.outcome = "returned"
          /\ located.port \in FilePorts
          /\ lockDir[located.port].present
          /\ lockDir[located.port].valid
          /\ located.token = lockDir[located.port].authToken
          /\ located.token \notin {None, ""}
    /\ (located.outcome = "returned" /\ located.token = None /\ pc # "check") =>
          (pc = "done" /\ conn = "none")

C18_Witness ==
    /\ command = "mcp-server"
    /\ envSSE = "200"
    /\ conn = "open"
    /\ located.port = "200"
    /\ located.token = "tokB"

====
